---- MODULE Spec2Model ----
(***************************************************************************)
(* Model of the stdio JSON-RPC transport of mcp-code-wrapper: the          *)
(* MCPClient of the runtime executor (src/src/index.ts:392-577, emitted    *)
(* verbatim by the generator template src/src/generator.ts:201-386) and    *)
(* the EventEmitter based MCPClient of the code execution environment      *)
(* (src/src/index.ts:779-935).                                             *)
(***************************************************************************)
EXTENDS Integers, Sequences, FiniteSets, TLC

(***************************************************************************)
(* JSON values.  Every value is a record tagged by t; the payload field    *)
(* is named differently per tag.                                           *)
(***************************************************************************)
Undef == [t |-> "undef"]
Null == [t |-> "null"]
Num(n) == [t |-> "num", n |-> n]
Str(s) == [t |-> "str", s |-> s]
Arr(items) == [t |-> "arr", items |-> items]
Obj(props) == [t |-> "obj", props |-> props]

\* The own key that `obj[key] = value` does not create: the assignment
\* runs the __proto__ setter inherited from Object.prototype, which makes
\* an object, array or null value the prototype of obj and ignores every
\* other value. JSON.parse does create it as an own key.
ProtoKey == "__proto__"

\* an object with own properties props whose prototype was set to proto
ObjProto(props, proto) == [t |-> "obj", props |-> props, proto |-> proto]
HasProto(v) == v.t = "obj" /\ "proto" \in DOMAIN v

IsArray(v) == v.t = "arr"
\* typeof v === 'object' (true of null, arrays and objects)
TypeofObject(v) == v.t \in {"null", "arr", "obj"}
\* JS truthiness of a value
Truthy(v) ==
    CASE v.t = "undef" -> FALSE
      [] v.t = "null" -> FALSE
      [] v.t = "num" -> v.n # 0
      [] v.t = "str" -> v.s # ""
      [] OTHER -> TRUE

\* { key: v }
Single(key, v) == Obj([k \in {key} |-> v])
\* { "": v }
Wrap(v) == Single("", v)
\* { content: [ { text: v } ] }
Envelope(v) == Single("content", Arr(<<Single("text", v)>>))

Five == Num(5)
One == Num(1)
Two == Num(2)

\* The JSON documents that occur as string payloads, with what
\* JSON.parse returns for each; every other string of the model is not
\* valid JSON and makes JSON.parse throw.
TextFive == "5"
TextOne == "1"
TextTwo == "2"
TextNull == "null"
TextWrapFive == "{\"\":5}"
TextEnvelope == "{\"content\":[{\"text\":\"5\"}]}"
TextHello == "hello"
TextObject == "[object Object]"
TextTypeError == "TypeError: Cannot convert object to primitive value"

JSONDocuments == {TextFive, TextOne, TextTwo, TextNull, TextWrapFive, TextEnvelope}

JSONParseText(s) ==
    CASE s = TextFive -> Five
      [] s = TextOne -> One
      [] s = TextTwo -> Two
      [] s = TextNull -> Null
      [] s = TextWrapFive -> Wrap(Five)
      [] s = TextEnvelope -> Envelope(Str(TextFive))

\* String(v), the coercion JSON.parse applies to a non-string argument.
\* Array.prototype.join renders null and undefined elements as "" and a
\* one-element array as its element; a longer array contains a comma and
\* is in no case one of the JSONDocuments, so it is rendered as a string
\* that is not valid JSON.
RECURSIVE ToStringJS(_, _)
ToStringJS(v, inArray) ==
    CASE v.t = "str" -> v.s
      [] v.t = "num" -> ToString(v.n)
      [] v.t \in {"null", "undef"} -> IF inArray THEN "" ELSE v.t
      [] v.t = "obj" ->
            \* toString is found along the prototype chain; a chain that
            \* ends in null has none and String(v) throws
            IF ~HasProto(v) THEN TextObject
            ELSE IF v.proto.t = "null" THEN TextTypeError
            ELSE ToStringJS(v.proto, inArray)
      [] v.t = "arr" ->
            IF Len(v.items) = 0 THEN ""
            ELSE IF Len(v.items) = 1 THEN ToStringJS(v.items[1], TRUE)
            ELSE ","

\* JSON.parse(v): [ok |-> FALSE] stands for the SyntaxError it throws.
JSONParse(v) ==
    LET s == ToStringJS(v, FALSE)
    IN IF s \in JSONDocuments THEN [ok |-> TRUE, value |-> JSONParseText(s)]
       ELSE [ok |-> FALSE, value |-> Undef]

\* v?.[key] for a property name: an own property, or one found along the
\* prototype chain
RECURSIVE GetProp(_, _)
GetProp(v, key) ==
    CASE v.t = "obj" ->
            IF key \in DOMAIN v.props THEN v.props[key]
            ELSE IF HasProto(v) THEN GetProp(v.proto, key)
            ELSE Undef
      [] v.t = "arr" ->
            IF key = "0" /\ Len(v.items) >= 1 THEN v.items[1] ELSE Undef
      [] OTHER -> Undef

\* v?.[0]
GetIndex0(v) ==
    CASE v.t = "arr" -> IF Len(v.items) >= 1 THEN v.items[1] ELSE Undef
      [] v.t = "obj" -> GetProp(v, "0")
      [] v.t = "str" -> IF v.s = "" THEN Undef ELSE Str("c")
      [] OTHER -> Undef

\* result?.content?.[0]?.text
ContentText(result) == GetProp(GetIndex0(GetProp(result, "content")), "text")

\* keys.length === 1 && keys[0] === ''
IsEmptyKeyWrapper(data) == data.t = "obj" /\ DOMAIN data.props = {""}

\* const normalized = {}; for (const [key, value] of Object.entries(data))
\* normalized[key] = <the normalized value>: every own key of data becomes
\* an own key of the result, except ProtoKey.
Rebuild(props, values) ==
    LET own == [k \in DOMAIN props \ {ProtoKey} |-> values[k]]
    IN IF ProtoKey \in DOMAIN props /\ TypeofObject(values[ProtoKey])
       THEN ObjProto(own, values[ProtoKey])
       ELSE Obj(own)

\* normalizeData with the unwrapped value returned as it is, objects too
RECURSIVE NormalizeDataShallowUnwrap(_)
NormalizeDataShallowUnwrap(data) ==
    IF IsArray(data)
    THEN Arr([i \in 1..Len(data.items) |-> NormalizeDataShallowUnwrap(data.items[i])])
    ELSE IF Truthy(data) /\ TypeofObject(data)
    THEN IF IsEmptyKeyWrapper(data)
         THEN data.props[""]
         ELSE Obj([k \in DOMAIN data.props |-> NormalizeDataShallowUnwrap(data.props[k])])
    ELSE data

RECURSIVE NormalizeData(_)
NormalizeData(data) ==
    IF IsArray(data)
    THEN Arr([i \in 1..Len(data.items) |-> NormalizeData(data.items[i])])
    ELSE IF Truthy(data) /\ TypeofObject(data)
    THEN IF IsEmptyKeyWrapper(data)
         THEN LET value == data.props[""]
              IN IF ~TypeofObject(value) THEN value ELSE NormalizeData(value)
         ELSE Rebuild(data.props,
                      [k \in DOMAIN data.props |-> NormalizeData(data.props[k])])
    ELSE data

\* normalizeResponse without its catch: a text that does not decode leaves
\* no value
NormalizeResponseNoCatch(result) ==
    IF Truthy(ContentText(result))
    THEN LET parsed == JSONParse(ContentText(result))
         IN IF parsed.ok THEN NormalizeData(parsed.value) ELSE Undef
    ELSE NormalizeData(result)

NormalizeResponse(result) ==
    IF Truthy(ContentText(result))
    THEN LET parsed == JSONParse(ContentText(result))
         IN IF parsed.ok THEN NormalizeData(parsed.value) ELSE result
    ELSE NormalizeData(result)

(***************************************************************************)
(* The raw results the normalizer is applied to: the primitives closed     *)
(* under the one- and two-element containers, MaxDepth levels deep.        *)
(***************************************************************************)
MaxDepth == 3

Primitives == {Five, One, Null, Str(TextHello), Str(TextEnvelope)}

Containers(v) ==
    { Wrap(v), Single("content", v), Single("text", v),
      Arr(<<v>>), Arr(<<v, Two>>),
      Obj([k \in {"", "a"} |-> IF k = "" THEN v ELSE One]),
      Obj([k \in {ProtoKey, "a"} |-> IF k = ProtoKey THEN v ELSE One]) }

RECURSIVE RawValues(_)
RawValues(d) ==
    IF d = 0 THEN Primitives
    ELSE LET below == RawValues(d - 1)
         IN below \cup UNION { Containers(v) : v \in below }

\* some object at any depth of v has "" as its only key
RECURSIVE HasEmptyKeyWrapper(_)
HasEmptyKeyWrapper(v) ==
    CASE v.t = "arr" -> \E i \in 1..Len(v.items) : HasEmptyKeyWrapper(v.items[i])
      [] v.t = "obj" ->
            \/ IsEmptyKeyWrapper(v)
            \/ \E k \in DOMAIN v.props : HasEmptyKeyWrapper(v.props[k])
      [] OTHER -> FALSE

(***************************************************************************)
(* The wire.  The worker's stdout is a sequence of bytes.  One byte        *)
(* stands for one lexical element of a frame: "{" and "}" delimit the      *)
(* JSON object, a digit is its id member, "a" and "w" are the characters   *)
(* of its result member, "e" is an error member that has a message, "f"    *)
(* one that has none, and "x" is text that is not JSON.  The two bytes     *)
(* LeadByte ContByte are the UTF-8 encoding of one further result          *)
(* character, EAcute.                                                      *)
(***************************************************************************)
NL == "\n"
SP == " "
LeadByte == "<C3>"
ContByte == "<A9>"
EAcute == "<U+00E9>"
Replacement == "<U+FFFD>"

\* requests one client issues
MaxReq == 3

\* an id the client never issues
UnknownId == MaxReq + 1

IdChars == { ToString(n) : n \in 1..UnknownId }
IdOfChar(c) == CHOOSE n \in 1..UnknownId : ToString(n) = c
ResultChars == {"a", "w", EAcute, Replacement}
ErrorChars == {"e", "f"}

\* Buffer.prototype.toString(): UTF-8 decoding of one chunk on its own. A
\* lead byte without its continuation byte, and a continuation byte
\* without its lead byte, each decode to U+FFFD.
RECURSIVE BufferToString(_)
BufferToString(bytes) ==
    IF bytes = <<>> THEN <<>>
    ELSE IF Head(bytes) = LeadByte
    THEN IF Len(bytes) >= 2 /\ bytes[2] = ContByte
         THEN <<EAcute>> \o BufferToString(SubSeq(bytes, 3, Len(bytes)))
         ELSE <<Replacement>> \o BufferToString(Tail(bytes))
    ELSE IF Head(bytes) = ContByte
    THEN <<Replacement>> \o BufferToString(Tail(bytes))
    ELSE <<Head(bytes)>> \o BufferToString(Tail(bytes))

\* String.prototype.split('\n'): always at least one segment
RECURSIVE SplitLines(_)
SplitLines(text) ==
    IF \A i \in 1..Len(text) : text[i] # NL THEN <<text>>
    ELSE LET i == CHOOSE j \in 1..Len(text) :
                      text[j] = NL /\ \A k \in 1..(j - 1) : text[k] # NL
         IN <<SubSeq(text, 1, i - 1)>> \o SplitLines(SubSeq(text, i + 1, Len(text)))

\* !line.trim()
IsBlank(line) == \A i \in 1..Len(line) : line[i] = SP

\* the characters of a line that are not white space
RECURSIVE Significant(_)
Significant(line) ==
    IF line = <<>> THEN <<>>
    ELSE IF Head(line) = SP THEN Significant(Tail(line))
    ELSE <<Head(line)>> \o Significant(Tail(line))

\* the string a sequence of result characters spells
RECURSIVE Spell(_)
Spell(chars) == IF chars = <<>> THEN "" ELSE Head(chars) \o Spell(Tail(chars))

\* the result member: absent, the object {"": 5} (spelled "w"), or a string
ResultValue(chars) ==
    IF chars = <<>> THEN Undef
    ELSE IF chars = <<"w">> THEN Wrap(Five)
    ELSE Str(Spell(chars))

NoResponse == [ok |-> FALSE, id |-> 0, result |-> Undef, error |-> ""]

\* JSON.parse(line) read as an MCPResponse. id 0 stands for a document
\* that has no id member; error "" for one that has no (or a falsy) error
\* member.
JSONParseLine(line) ==
    LET t == Significant(line)
        n == Len(t)
    IN IF n < 2 \/ t[1] # "{" \/ t[n] # "}" THEN NoResponse
       ELSE IF n = 2 THEN [NoResponse EXCEPT !.ok = TRUE]
       ELSE IF t[2] \notin IdChars THEN NoResponse
       ELSE LET hasError == n > 3 /\ t[n - 1] \in ErrorChars
                chars == SubSeq(t, 3, IF hasError THEN n - 2 ELSE n - 1)
            IN IF \E i \in 1..Len(chars) : chars[i] \notin ResultChars
               THEN NoResponse
               ELSE [ok |-> TRUE, id |-> IdOfChar(t[2]),
                     result |-> ResultValue(chars),
                     error |-> IF hasError THEN t[n - 1] ELSE ""]

(***************************************************************************)
(* The client.                                                             *)
(***************************************************************************)
VARIABLES
    variant,          \* which MCPClient: "runtime" (index.ts:392) or "executor" (index.ts:779)
    process,          \* this.process: "undefined", "child" or "null"
    requestId,        \* this.requestId
    pendingRequests,  \* this.pendingRequests: id -> the request whose resolve/reject it holds
    buffer,           \* this.buffer
    timers,           \* the armed 30 s timers of request(), oldest first
    requests,         \* the promise request() returned, per id, and its closure
    stdin,            \* the frames written to the worker's stdin
    listening,        \* the 'data' listener is attached to the child's stdout
    startState,       \* the promise of start(): "idle", "initializing", "ready", "rejected"
    initId,           \* the id of the initialize request
    stopState,        \* the promise of stop(): "idle", "waiting", "done"
    graceTimer,       \* the 1 s forceKillTimeout of stop() is armed
    killed,           \* this.process.killed
    worker,           \* the worker process: "none", "running", "exited", "failed" (never launched)
    signals,          \* the signals delivered to the worker
    wire,             \* bytes the worker has written that no 'data' event has delivered
    emitted,          \* number of lines the worker has sent as chunks of their own
    received,         \* history: all bytes handed to the 'data' listener
    decoded,          \* history: all text the 'data' listener appended to the buffer
    handed,           \* history: the lines handed to JSON.parse
    atStop,           \* history: the ids in the table when stop() was called
    atExit,           \* history: the ids in the table when the worker exited by itself
    raw,              \* the raw result given to the normalizer
    normData,         \* normalizeData(raw)
    norm1,            \* normalizeResponse(raw)
    norm2,            \* normalizeResponse(norm1)
    npc,              \* normalizer run: "off", "input", "once", "twice"
    installed,        \* (global as any).__mcpClient is set
    threw             \* history: a generated wrapper threw for want of the global client

clientVars == <<variant, process, requestId, pendingRequests, buffer, timers,
                requests, stdin, listening, startState, initId, stopState,
                graceTimer, killed>>
workerVars == <<worker, signals, wire, emitted>>
historyVars == <<received, decoded, handed, atStop, atExit>>
normVars == <<raw, normData, norm1, norm2, npc>>
execVars == <<installed, threw>>
vars == <<clientVars, workerVars, historyVars, normVars, execVars>>

\* chunks the worker sends in one run
MaxOut == 3

Variants == {"runtime", "executor"}

MethodInitialize == "initialize"
MethodToolsCall == "tools/call"
MethodInitialized == "notifications/initialized"

RequestFrame(id, method) == [kind |-> "request", id |-> id, method |-> method]
\* a notification written with the id counter as its id
NotificationFrameWithId(method) ==
    [kind |-> "notification", id |-> requestId, method |-> method]

\* the object notify() serializes: it has no id member
NotificationFrame(method) == [kind |-> "notification", method |-> method]

\* The promise of one request() call, with the method its closure holds.
\* History: ready tells whether start() had resolved when it was issued, by
\* what settled it ("response", "timeout", or "throw" for an exception in
\* the executor function), frame the line that did, first whether all
\* older requests were in the table at that moment, calls the calls of
\* its resolve and reject, late whether a response with its id came when
\* the table had no entry for it.
NewRequest(method) ==
    [method |-> method, state |-> "pending", value |-> Undef, reason |-> "",
     ready |-> startState = "ready", by |-> "", frame |-> <<>>, first |-> FALSE,
     calls |-> 0, late |-> FALSE]

\* resolve(value) of request p: a promise keeps its first settlement
Resolve(reqs, p, value, by, frame, first) ==
    [reqs EXCEPT ![p] =
        IF @.state = "pending"
        THEN [@ EXCEPT !.state = "resolved", !.value = value, !.by = by,
                       !.frame = frame, !.first = first, !.calls = @ + 1]
        ELSE [@ EXCEPT !.calls = @ + 1]]

\* reject(new Error(reason)) of request p
Reject(reqs, p, reason, by, frame, first) ==
    [reqs EXCEPT ![p] =
        IF @.state = "pending"
        THEN [@ EXCEPT !.state = "rejected", !.reason = reason, !.by = by,
                       !.frame = frame, !.first = first, !.calls = @ + 1]
        ELSE [@ EXCEPT !.calls = @ + 1]]

ErrorMessageText == "boom"
ErrorStringified == "{\"code\":-32000}"
ErrorFallback == "MCP error"
TypeErrorText == "TypeError: Cannot read properties of undefined (reading 'stdin')"

\* response.error.message || JSON.stringify(response.error)   (runtime)
\* response.error.message || 'MCP error'                      (executor)
ErrorMessage(error) ==
    IF error = "e" THEN ErrorMessageText
    ELSE IF variant = "runtime" THEN ErrorStringified ELSE ErrorFallback

\* `Request timeout: ${method}`   (runtime)
\* 'Request timeout'              (executor)
TimeoutMessage(method) ==
    IF variant = "runtime" THEN "Request timeout: " \o method ELSE "Request timeout"

\* every request issued before request p still has its entry in the table
Overtakes(table, p) == \A q \in 1..(p - 1) : \E k \in DOMAIN table : table[k] = q

\* a removal that empties the table
WithoutAll(table, id) == <<>>

\* the table without the entry of id
Without(table, id) == [k \in DOMAIN table \ {id} |-> table[k]]

\* correlation by order of issue instead of by id
LookupPendingOldest(table, id) ==
    IF DOMAIN table = {} THEN 0
    ELSE table[CHOOSE k \in DOMAIN table : \A j \in DOMAIN table : k <= j]

\* a lookup that falls back on the newest entry for an id it does not hold
LookupPendingNewest(table, id) ==
    IF id \in DOMAIN table THEN table[id]
    ELSE IF DOMAIN table = {} THEN 0
    ELSE table[CHOOSE k \in DOMAIN table : \A j \in DOMAIN table : k >= j]

\* this.pendingRequests.get(response.id); 0 stands for undefined
LookupPending(table, id) ==
    IF id \in DOMAIN table THEN table[id] ELSE 0

\* a test that takes a frame for an error only when it has no result
ResponseFailsExclusive(response) ==
    response.error # "" /\ response.result = Undef

\* if (response.error)
ResponseFails(response) == response.error # ""

\* One turn of the loop of processBuffer, on the record st of the fields
\* the loop reads and writes.
ProcessLine(st, line) ==
    IF IsBlank(line) THEN st
    ELSE LET response == JSONParseLine(line)
             st1 == [st EXCEPT !.handed = Append(@, line)]
         IN IF ~response.ok THEN st1
            ELSE LET pending == LookupPending(st1.pendingRequests, response.id)
                 IN IF pending = 0
                    THEN [st1 EXCEPT
                            !.requests = [p \in DOMAIN @ |->
                                IF p = response.id THEN [@[p] EXCEPT !.late = TRUE]
                                ELSE @[p]]]
                    ELSE [st1 EXCEPT
                            !.pendingRequests = Without(@, response.id),
                            !.requests =
                                IF ResponseFails(response)
                                THEN Reject(@, pending, ErrorMessage(response.error),
                                            "response", line, Overtakes(st1.pendingRequests, pending))
                                ELSE Resolve(@, pending, response.result,
                                             "response", line, Overtakes(st1.pendingRequests, pending))]

\* the loop with the try around it instead of inside it
RECURSIVE ProcessLinesTryOutside(_, _)
ProcessLinesTryOutside(st, lines) ==
    IF lines = <<>> THEN st
    ELSE IF ~IsBlank(Head(lines)) /\ ~JSONParseLine(Head(lines)).ok
    THEN [st EXCEPT !.handed = Append(@, Head(lines))]
    ELSE ProcessLinesTryOutside(ProcessLine(st, Head(lines)), Tail(lines))

\* for (const line of lines) { ... }
RECURSIVE ProcessLines(_, _)
ProcessLines(st, lines) ==
    IF lines = <<>> THEN st
    ELSE ProcessLines(ProcessLine(st, Head(lines)), Tail(lines))

\* processBuffer(): lines.pop() is the segment after the last newline
ProcessBuffer(st) ==
    LET lines == SplitLines(st.buffer)
    IN ProcessLines([st EXCEPT !.buffer = lines[Len(lines)]],
                    SubSeq(lines, 1, Len(lines) - 1))

\* The continuation of `await this.request('initialize', ...)` in
\* initialize() and of `await this.initialize()` in start(), run when the
\* promise of the initialize request has settled: the notification is
\* written and start() resolves, or start() rejects.
InitSettled(reqs) == startState = "initializing" /\ reqs[initId].state # "pending"
\* a start() that resolves whatever the outcome of initialize()
StartStateAfterAnyOutcome(reqs) ==
    IF InitSettled(reqs) THEN "ready" ELSE startState

StartStateAfter(reqs) ==
    IF InitSettled(reqs)
    THEN IF reqs[initId].state = "resolved" THEN "ready" ELSE "rejected"
    ELSE startState
\* an initialize request that is written again when it has failed
StdinAfterResend(reqs) ==
    IF InitSettled(reqs)
    THEN IF reqs[initId].state = "resolved"
         THEN Append(stdin, NotificationFrame(MethodInitialized))
         ELSE Append(stdin, RequestFrame(initId, MethodInitialize))
    ELSE stdin

\* initialize() going on to notify whatever the outcome of its request
StdinAfterAnyOutcome(reqs) ==
    IF InitSettled(reqs)
    THEN Append(stdin, NotificationFrame(MethodInitialized))
    ELSE stdin

StdinAfter(reqs) ==
    IF InitSettled(reqs) /\ reqs[initId].state = "resolved"
    THEN Append(stdin, NotificationFrame(MethodInitialized))
    ELSE stdin

\* the timer callback without its test
TimerGuardAlways(table, id) == TRUE

\* the timer callback's test: this.pendingRequests.has(id)
TimerGuard(table, id) == id \in DOMAIN table

\* a counter that hands out 2, 1, 3, 4, ...
NextIdOutOfOrder(current) ==
    CASE current = 0 -> 2
      [] current = 2 -> 1
      [] current = 1 -> 3
      [] OTHER -> current + 1

\* ++this.requestId
NextId(current) == current + 1

\* request(method), called while this.process is proc: the executor
\* function of the returned promise. With no child process `this.process.stdin` throws after the table entry was
\* made: the promise is rejected with the TypeError, nothing is written
\* and no timer is armed.
Request(method, proc) ==
    LET id == NextId(requestId)
    IN /\ requestId' = id
       /\ pendingRequests' = [k \in DOMAIN pendingRequests \cup {id} |->
                                 IF k = id THEN id ELSE pendingRequests[k]]
       /\ IF proc = "child"
          THEN /\ stdin' = Append(stdin, RequestFrame(id, method))
               /\ timers' = Append(timers, [id |-> id, method |-> method])
               /\ requests' = [k \in DOMAIN requests \cup {id} |->
                                 IF k = id THEN NewRequest(method) ELSE requests[k]]
          ELSE /\ stdin' = stdin
               /\ timers' = timers
               /\ requests' = [k \in DOMAIN requests \cup {id} |->
                                 IF k = id
                                 THEN [NewRequest(method) EXCEPT
                                         !.state = "rejected",
                                         !.reason = TypeErrorText,
                                         !.by = "throw"]
                                 ELSE requests[k]]

Init ==
    /\ variant \in Variants
    /\ process = "undefined"
    /\ requestId = 0
    /\ pendingRequests = <<>>
    /\ buffer = <<>>
    /\ timers = <<>>
    /\ requests = <<>>
    /\ stdin = <<>>
    /\ listening = FALSE
    /\ startState = "idle"
    /\ initId = 0
    /\ stopState = "idle"
    /\ graceTimer = FALSE
    /\ killed = FALSE
    /\ worker = "none"
    /\ signals = <<>>
    /\ wire = <<>>
    /\ emitted = 0
    /\ received = <<>>
    /\ decoded = <<>>
    /\ handed = <<>>
    /\ atStop = {}
    /\ atExit = {}
    /\ raw = Undef
    /\ normData = Undef
    /\ norm1 = Undef
    /\ norm2 = Undef
    /\ npc = "off"
    /\ installed = FALSE
    /\ threw = FALSE

\* What spawn() can do: return a child that runs; return a child object
\* for a program that could not be launched (ENOENT and the like: the
\* failure is an 'error' event on a later tick, which the runtime client
\* logs and the executor client does not listen to); or throw.
SpawnOutcomes == {"running", "failed", "thrown"}

\* start(): spawn, attach the listeners, then initialize() up to its
\* await. When spawn() throws, the async function rejects there.
Start ==
    /\ startState = "idle"
    /\ process = "undefined"
    /\ stopState = "idle"
    /\ requestId < MaxReq
    /\ \E spawned \in SpawnOutcomes :
         IF spawned = "thrown"
         THEN /\ worker' = "failed"
              /\ startState' = "rejected"
              /\ UNCHANGED <<process, listening, requestId, pendingRequests,
                             stdin, timers, requests, initId>>
         ELSE /\ process' = "child"
              /\ worker' = spawned
              /\ listening' = TRUE
              /\ Request(MethodInitialize, "child")
              /\ initId' = NextId(requestId)
              /\ startState' = "initializing"
    /\ UNCHANGED <<variant, buffer, stopState, graceTimer, killed, signals,
                   wire, emitted>>
    /\ UNCHANGED <<historyVars, normVars>>
    /\ UNCHANGED execVars

\* callTool(name, args) up to its await
CallTool ==
    /\ requestId < MaxReq
    /\ Request(MethodToolsCall, process)
    /\ UNCHANGED <<variant, process, buffer, listening, startState, initId,
                   stopState, graceTimer, killed>>
    /\ UNCHANGED <<workerVars, historyVars, normVars>>
    /\ UNCHANGED execVars

\* what callTool(name, args) returned for request p: the normalized result
\* (runtime), the result as it came (executor)
ToolResult(p) ==
    IF requests[p].state = "resolved"
    THEN [state |-> "resolved",
          value |-> IF variant = "runtime" THEN NormalizeResponse(requests[p].value)
                    ELSE requests[p].value,
          reason |-> ""]
    ELSE [state |-> requests[p].state, value |-> Undef, reason |-> requests[p].reason]

\* stdout.on('data', data => { this.buffer += data.toString();
\* this.processBuffer(); }) and the continuations it wakes. The histories
\* of the bytes, the text and the lines are kept when keep is TRUE.
StdoutData(chunk, keep) ==
    /\ listening
    /\ worker = "running"
    /\ LET text == BufferToString(chunk)
           st == ProcessBuffer([buffer |-> buffer \o text,
                                pendingRequests |-> pendingRequests,
                                requests |-> requests,
                                handed |-> handed])
       IN /\ buffer' = st.buffer
          /\ pendingRequests' = st.pendingRequests
          /\ requests' = st.requests
          /\ handed' = IF keep THEN st.handed ELSE handed
          /\ decoded' = IF keep THEN decoded \o text ELSE decoded
          /\ startState' = StartStateAfter(st.requests)
          /\ stdin' = StdinAfter(st.requests)
    /\ received' = IF keep THEN received \o chunk ELSE received
    /\ UNCHANGED <<variant, process, requestId, timers, listening, initId,
                   stopState, graceTimer, killed, worker, signals, atStop, atExit>>
    /\ UNCHANGED normVars
    /\ UNCHANGED execVars

\* a complete frame
Line(id, chars) == <<"{", ToString(id)>> \o chars \o <<"}">>

\* the chunks of a run of the whole client: one line each, a response to
\* a request that was issued
Chunks ==
    { Line(id, <<c>>) \o <<NL>> : id \in 1..requestId, c \in {"a", "e"} }

\* the worker writes a line and the client reads it as one chunk
WorkerSends ==
    /\ emitted < MaxOut
    /\ \E chunk \in Chunks : StdoutData(chunk, FALSE)
    /\ emitted' = emitted + 1
    /\ wire' = wire

\* the callback of setTimeout(..., 30000) of the oldest armed timer
TimerFires ==
    /\ timers # <<>>
    /\ LET id == Head(timers).id
           method == Head(timers).method
           hit == TimerGuard(pendingRequests, id)
           reqs == IF hit
                   THEN Reject(requests, id, TimeoutMessage(method), "timeout", <<>>, FALSE)
                   ELSE requests
       IN /\ pendingRequests' = IF hit THEN Without(pendingRequests, id)
                                 ELSE pendingRequests
          /\ requests' = reqs
          /\ startState' = StartStateAfter(reqs)
          /\ stdin' = StdinAfter(reqs)
    /\ timers' = Tail(timers)
    /\ UNCHANGED <<variant, process, requestId, buffer, listening, initId,
                   stopState, graceTimer, killed>>
    /\ UNCHANGED <<workerVars, historyVars, normVars>>
    /\ UNCHANGED execVars

\* this.process.kill(signal): delivers the signal and sets `killed` when
\* the process is still running, does neither when it has exited
Kill(signal) ==
    IF worker = "running"
    THEN signals' = Append(signals, signal) /\ killed' = TRUE
    ELSE signals' = signals /\ killed' = killed

\* stop() up to its await (runtime); the whole of stop() (executor)
Stop ==
    /\ process = "child"
    /\ stopState = "idle"
    /\ atStop' = DOMAIN pendingRequests
    /\ Kill("SIGTERM")
    /\ IF variant = "runtime"
       THEN /\ pendingRequests' = <<>>
            /\ listening' = FALSE
            /\ graceTimer' = TRUE
            /\ stopState' = "waiting"
       ELSE /\ pendingRequests' = pendingRequests
            /\ listening' = listening
            /\ graceTimer' = graceTimer
            /\ stopState' = "done"
    /\ UNCHANGED <<variant, process, requestId, buffer, timers, requests, stdin,
                   startState, initId, worker, wire, emitted, received, decoded,
                   handed, atExit>>
    /\ UNCHANGED normVars
    /\ UNCHANGED execVars

\* stop() of a client that holds no process handle: `if (this.process)`
\* is false, nothing is done and the promise is resolved
StopNoProcess ==
    /\ process # "child"
    /\ stopState = "idle"
    /\ stopState' = "done"
    /\ atStop' = DOMAIN pendingRequests
    /\ UNCHANGED <<variant, process, requestId, pendingRequests, buffer, timers,
                   requests, stdin, listening, startState, initId, graceTimer,
                   killed, received, decoded, handed, atExit>>
    /\ UNCHANGED <<workerVars, normVars>>
    /\ UNCHANGED execVars

\* The worker process ends. While stop() waits, the once('exit') listener
\* clears the force-kill timer and resolves, and stop() sets this.process
\* to null. Otherwise no listener of the client hears of it.
WorkerExits ==
    /\ worker = "running"
    /\ worker' = "exited"
    /\ IF stopState = "waiting"
       THEN /\ graceTimer' = FALSE
            /\ stopState' = "done"
            /\ process' = "null"
       ELSE UNCHANGED <<graceTimer, stopState, process>>
    /\ atExit' = IF signals = <<>> THEN DOMAIN pendingRequests ELSE atExit
    /\ UNCHANGED <<variant, requestId, pendingRequests, buffer, timers, requests,
                   stdin, listening, startState, initId, killed, signals, wire,
                   emitted, received, decoded, handed, atStop>>
    /\ UNCHANGED normVars
    /\ UNCHANGED execVars

\* a forceKillTimeout callback that resolves only when it has sent SIGKILL
GraceFiresResolvesOnKill ==
    /\ graceTimer
    /\ graceTimer' = FALSE
    /\ IF process # "null" /\ ~killed
       THEN Kill("SIGKILL") /\ stopState' = "done" /\ process' = "null"
       ELSE UNCHANGED <<signals, killed, stopState, process>>
    /\ UNCHANGED <<variant, requestId, pendingRequests, buffer, timers, requests,
                   stdin, listening, startState, initId, worker, wire, emitted>>
    /\ UNCHANGED <<historyVars, normVars>>
    /\ UNCHANGED execVars

\* the callback of forceKillTimeout, and stop() after its await
GraceFires ==
    /\ graceTimer
    /\ graceTimer' = FALSE
    /\ IF process # "null" /\ ~killed
       THEN Kill("SIGKILL")
       ELSE UNCHANGED <<signals, killed>>
    /\ stopState' = "done"
    /\ process' = "null"
    /\ UNCHANGED <<variant, requestId, pendingRequests, buffer, timers, requests,
                   stdin, listening, startState, initId, worker, wire, emitted>>
    /\ UNCHANGED <<historyVars, normVars>>
    /\ UNCHANGED execVars

Next ==
    \/ Start
    \/ CallTool
    \/ WorkerSends
    \/ TimerFires
    \/ Stop
    \/ StopNoProcess
    \/ WorkerExits
    \/ GraceFires

Spec == Init /\ [][Next]_vars

\* Spec with the event loop running the callback of the one-second timer
\* that stop() has scheduled
SpecLive == Spec /\ WF_vars(GraceFires)

(***************************************************************************)
(* Claims about the whole client, checked under Spec.                      *)
(***************************************************************************)

\* what a response frame says: how the promise it settles must end
Outcome(frame) ==
    LET response == JSONParseLine(frame)
    IN IF response.error # ""
       THEN [state |-> "rejected", value |-> Undef, reason |-> ErrorMessage(response.error)]
       ELSE [state |-> "resolved", value |-> response.result, reason |-> ""]

\* C1: every request that a response frame settled was settled by a frame
\* that carries the request's own id, with the result or error of that
\* frame, in whatever order the frames arrived.
C1_CorrelatedById ==
    \A p \in DOMAIN requests :
        requests[p].by = "response" =>
            /\ JSONParseLine(requests[p].frame).ok
            /\ JSONParseLine(requests[p].frame).id = p
            /\ requests[p].state = Outcome(requests[p].frame).state
            /\ requests[p].value = Outcome(requests[p].frame).value
            /\ requests[p].reason = Outcome(requests[p].frame).reason

\* MaxReq requests were outstanding at once and their responses arrived
\* in strictly reverse order of issue: each was settled by its own frame
\* while all older ones were still in the table.
C1_ReverseOrderWitness ==
    /\ requestId = MaxReq
    /\ \A p \in 1..MaxReq :
         /\ requests[p].by = "response"
         /\ requests[p].first
    /\ \E p \in 1..MaxReq : requests[p].state = "rejected"
    /\ \E p \in 1..MaxReq : requests[p].state = "resolved"

\* C2: once stop() has been called, every request that was pending at the
\* call is rejected with a process-exited error.
C2_StopRejectsPending ==
    stopState # "idle" =>
        \A p \in atStop :
            requests[p].state = "rejected" /\ requests[p].by = "exit"

\* C3: once the worker has terminated by itself, every request that was
\* pending then is rejected with a ProcessExitedUnexpectedly error.
C3_ExitRejectsPending ==
    \A p \in atExit :
        requests[p].state = "rejected" /\ requests[p].by = "exit"

\* C4: a callTool made before start() has resolved is rejected, and no
\* tools/call frame is written to the worker before the
\* notifications/initialized notification.
C4_NoCallBeforeHandshake ==
    /\ \A p \in DOMAIN requests :
         (requests[p].method = MethodToolsCall /\ ~requests[p].ready) =>
             requests[p].state = "rejected"
    /\ \A i \in 1..Len(stdin) :
         stdin[i].method = MethodToolsCall =>
             \E j \in 1..(i - 1) : stdin[j].method = MethodInitialized

\* C5: a request whose timer fired before any response for it is rejected
\* with a timeout error that names its method, and its id is not in the
\* pending table.
C5_TimeoutNamesMethod ==
    \A p \in DOMAIN requests :
        requests[p].by = "timeout" =>
            /\ requests[p].state = "rejected"
            /\ requests[p].reason = "Request timeout: " \o requests[p].method
            /\ p \notin DOMAIN pendingRequests

\* C6: resolve and reject of one request are called at most once between
\* them, whatever the order of its responses, their duplicates and its
\* timer; a request that a response or the timer settled got exactly
\* that one call.
C6_SettledOnce ==
    \A p \in DOMAIN requests :
        /\ requests[p].calls <= 1
        /\ requests[p].by \in {"response", "timeout"} => requests[p].calls = 1

\* a response came for a request that had timed out, and a duplicate
\* response came for a request that had been answered
C6_LateResponseWitness ==
    /\ \E p \in DOMAIN requests :
         requests[p].by = "timeout" /\ requests[p].late /\ requests[p].calls = 1
    /\ \E p \in DOMAIN requests :
         requests[p].by = "response" /\ requests[p].late /\ requests[p].calls = 1
    /\ timers = <<>>

\* C12: when the grace timer of stop() has fired while the worker was
\* still running, SIGKILL has been sent to the worker. (In the runtime
\* client stop() is done with the worker still running only through the
\* timer's callback: the 'exit' listener runs when the worker has ended.)
C12_GraceTimerEscalates ==
    (variant = "runtime" /\ stopState = "done" /\ worker = "running") =>
        \E i \in 1..Len(signals) : signals[i] = "SIGKILL"

\* C13: the promise of stop() is resolved only when the worker process
\* has exited.
C13_StopResolvesAfterExit ==
    stopState = "done" => worker # "running"

\* C14: when the worker process could not be spawned, start() is
\* rejected, no initialize request has been written to the worker and no
\* request was made for it.
C14_SpawnFailureNoHandshake ==
    worker = "failed" =>
        /\ startState = "rejected"
        /\ \A i \in 1..Len(stdin) : stdin[i].method # MethodInitialize
        /\ \A p \in DOMAIN requests : requests[p].method # MethodInitialize
        /\ initId \notin DOMAIN pendingRequests

\* the ids of the request frames written to the worker, in order of writing
RECURSIVE FrameIds(_)
FrameIds(frames) ==
    IF frames = <<>> THEN <<>>
    ELSE IF Head(frames).kind = "request"
    THEN <<Head(frames).id>> \o FrameIds(Tail(frames))
    ELSE FrameIds(Tail(frames))

\* C15: every call of request() takes an id greater than every id taken
\* before, one that no request ever had, whether the earlier requests
\* are pending, answered, timed out or were cleared by stop(); the frames
\* written to the worker carry strictly increasing ids.
C15_IdsIncreaseNeverReused ==
    [][ /\ requestId' >= requestId
        /\ DOMAIN requests' # DOMAIN requests =>
              /\ requestId' > requestId
              /\ \A p \in DOMAIN requests : p < requestId'
              /\ DOMAIN requests' = DOMAIN requests \cup {requestId'}
              /\ FrameIds(stdin') \in {FrameIds(stdin), Append(FrameIds(stdin), requestId')}
        /\ DOMAIN requests' = DOMAIN requests =>
              /\ requestId' = requestId
              /\ FrameIds(stdin') = FrameIds(stdin)
        /\ \A i, j \in 1..Len(FrameIds(stdin')) :
              i < j => FrameIds(stdin')[i] < FrameIds(stdin')[j]
      ]_vars

\* a request was issued after the first had been answered and the second
\* had been cleared from the table by stop()
C15_AfterStopWitness ==
    /\ requestId = 3
    /\ requests[1].by = "response"
    /\ 2 \in atStop
    /\ stopState = "waiting"
    /\ 3 \in DOMAIN pendingRequests
    /\ FrameIds(stdin) = <<1, 2, 3>>

\* the places of the notifications/initialized frames on stdin
Notified == { i \in 1..Len(stdin) : stdin[i] = NotificationFrame(MethodInitialized) }

\* C17: the first frame written to the worker is the initialize request;
\* the notifications/initialized notification is written, once, only
\* when the result of the initialize request has arrived; start() is
\* resolved only when the notification has been written, and is resolved
\* as soon as it has been, without any reply to it.
C17_HandshakeOrder ==
    /\ stdin # <<>> => stdin[1] = RequestFrame(initId, MethodInitialize)
    /\ Notified # {} =>
          /\ Cardinality(Notified) = 1
          /\ requests[initId].state = "resolved"
          /\ requests[initId].by = "response"
          /\ \A i \in Notified : i > 1
    /\ startState = "ready" <=> Notified # {}

\* start() has resolved: the initialize request, its result, then the
\* notification, and nothing has come from the worker since
C17_ReadyWitness ==
    /\ startState = "ready"
    /\ stdin = <<RequestFrame(1, MethodInitialize), NotificationFrame(MethodInitialized)>>
    /\ requests[1].state = "resolved"
    /\ emitted = 1

\* the ids whose 30 s timer is armed
Armed == { timers[i].id : i \in 1..Len(timers) }

\* C18: the table holds one entry per id, and every entry is that of a
\* request whose 30 s timer is still armed: no entry outlives the
\* timeout of its request.
C18_NoEntryOutlivesTimeout ==
    /\ \A id \in DOMAIN pendingRequests : pendingRequests[id] = id
    /\ DOMAIN pendingRequests \subseteq Armed

\* C19: no timer is armed for a request that a response has settled.
C19_TimerCancelledOnResponse ==
    \A id \in Armed : requests[id].by # "response"

\* C21: when the timer of a request fires, only the entry of that request
\* leaves the table and only its promise is rejected; every other entry
\* and every other request is as before.
C21_TimeoutTouchesOneRequest ==
    [][ (timers # <<>> /\ timers' = Tail(timers)) =>
            LET id == Head(timers).id
            IN /\ DOMAIN pendingRequests' = DOMAIN pendingRequests \ {id}
               /\ \A k \in DOMAIN pendingRequests' : pendingRequests'[k] = pendingRequests[k]
               /\ \A p \in DOMAIN requests \ {id} : requests'[p] = requests[p]
               /\ id \in DOMAIN pendingRequests =>
                     /\ requests'[id].state = "rejected"
                     /\ requests'[id].by = "timeout"
               /\ requestId' = requestId
      ]_vars

\* the first request timed out while the second was pending, and the
\* second was resolved by a response that came afterwards
C21_ResolvedAfterTimeoutWitness ==
    /\ requestId >= 2
    /\ requests[1].by = "timeout"
    /\ requests[2].by = "response"
    /\ requests[2].state = "resolved"
    /\ ~requests[2].first
    /\ ~requests[1].late

\* C22: once stop() has been called the 'data' listener is detached, and
\* no request that was pending at the call has been settled by a frame
\* that came afterwards.
C22_NoFrameAfterStop ==
    stopState # "idle" =>
        /\ ~listening
        /\ \A p \in atStop : requests[p].by # "response"

\* C23: the step that writes a notification appends one frame, which has
\* no id, to stdin; it takes no id from the counter, arms no timer, adds
\* no entry to the table and creates no promise.
C23_NotificationUntracked ==
    [][ (Len(stdin') > Len(stdin) /\ stdin'[Len(stdin')].method = MethodInitialized) =>
            /\ stdin' = Append(stdin, stdin'[Len(stdin')])
            /\ "id" \notin DOMAIN stdin'[Len(stdin')]
            /\ requestId' = requestId
            /\ timers' = timers
            /\ DOMAIN pendingRequests' \subseteq DOMAIN pendingRequests
            /\ DOMAIN requests' = DOMAIN requests
      ]_vars

\* the notification was written while a tools/call request was pending:
\* the table holds that request only and the counter stands at its id
C23_NotifiedWitness ==
    /\ Len(stdin) = 3
    /\ stdin[3].method = MethodInitialized
    /\ requestId = 2
    /\ DOMAIN pendingRequests = {2}
    /\ Len(timers) = 2

\* the places on stdin of the frames of request p
FramesOf(p) ==
    { i \in 1..Len(stdin) : stdin[i].kind = "request" /\ stdin[i].id = p }

\* C25: the frame of a request is on stdin exactly once, at all times:
\* while the request is pending, and after a response, an error response
\* or the timeout has settled it. (A request whose write threw has no
\* frame.) Every frame on stdin is that of a request that was made.
C25_WrittenOnce ==
    /\ \A p \in DOMAIN requests :
          /\ Cardinality(FramesOf(p)) = IF requests[p].by = "throw" THEN 0 ELSE 1
          /\ \A i \in FramesOf(p) : stdin[i] = RequestFrame(p, requests[p].method)
    /\ \A i \in 1..Len(stdin) :
          stdin[i].kind = "request" => stdin[i].id \in DOMAIN requests

\* the initialize request timed out, a tools/call request was rejected by
\* an error response, every timer has fired, and stdin holds the two
\* request frames and nothing else
C25_NoResendWitness ==
    /\ requestId = 2
    /\ requests[1].by = "timeout"
    /\ requests[2].by = "response"
    /\ requests[2].state = "rejected"
    /\ timers = <<>>
    /\ stdin = <<RequestFrame(1, MethodInitialize), RequestFrame(2, MethodToolsCall)>>

\* C26: a worker the client has spawned runs only while the client holds
\* its handle in this.process.
C26_NoWorkerWithoutHandle ==
    worker = "running" => process = "child"

\* C28: in the runtime client, stop() waits only while its one-second
\* timer is armed, the firing of the timer resolves it, and it is always
\* resolved in the end, whether the worker exits on SIGTERM, ignores it or
\* had exited before; once it is resolved the client holds no process
\* handle and no timer of stop() is armed. stop() of a client without a
\* handle is resolved having done nothing.
C28_StopAlwaysSettles ==
    /\ [](variant = "runtime" =>
            /\ stopState = "waiting" => (graceTimer /\ process = "child")
            /\ stopState = "done" => (~graceTimer /\ process # "child"))
    /\ [][ (variant = "runtime" /\ graceTimer /\ ~graceTimer') => stopState' = "done" ]_vars
    /\ [][ (stopState = "idle" /\ stopState' # "idle" /\ process # "child") =>
              /\ stopState' = "done"
              /\ UNCHANGED <<process, requestId, pendingRequests, buffer, timers,
                             requests, stdin, listening, startState, initId,
                             graceTimer, killed, signals, worker>> ]_vars
    /\ (stopState = "waiting") ~> (stopState = "done")

\* stop() was called when the worker had already exited: no signal could
\* be delivered, the timer's callback resolved stop() and the handle is
\* dropped
C28_StoppedAfterExitWitness ==
    /\ variant = "runtime"
    /\ stopState = "done"
    /\ worker = "exited"
    /\ signals = <<>>
    /\ atStop # {}
    /\ process = "null"

\* C29: when the initialize request has been rejected, by an error
\* response or by its timeout, start() is rejected and no
\* notifications/initialized frame is or will be on stdin.
C29_FailedInitializeRejectsStart ==
    (initId \in DOMAIN requests /\ requests[initId].state = "rejected") =>
        /\ requests[initId].by \in {"response", "timeout"}
        /\ startState = "rejected"
        /\ \A i \in 1..Len(stdin) : stdin[i].method # MethodInitialized

\* the worker answered the initialize request with an error: start() is
\* rejected and only the initialize request was written
C29_ErrorReplyWitness ==
    /\ requestId = 1
    /\ requests[1].by = "response"
    /\ requests[1].reason = ErrorMessageText
    /\ startState = "rejected"
    /\ stdin = <<RequestFrame(1, MethodInitialize)>>

(***************************************************************************)
(* Framing.  SpecFrame starts from the client after start() has resolved   *)
(* and two callTool are outstanding (Start, the response to initialize,    *)
(* CallTool, CallTool), with the text the worker is about to write, and    *)
(* delivers that text to the 'data' listener cut in every possible way.    *)
(***************************************************************************)
\* segments in the text the worker writes
MaxSeg == 3

InitializeResponse == Line(1, <<"a">>)

Segments ==
    { Line(2, <<"a">>) \o <<NL>>,
      Line(2, <<"f">>) \o <<NL>>,
      Line(3, <<LeadByte, ContByte>>) \o <<NL>>,
      Line(3, <<"e">>) \o <<NL>>,
      Line(UnknownId, <<"a">>) \o <<NL>>,
      <<"x", NL>>,
      <<SP, NL>> }

RECURSIVE Texts(_)
Texts(n) ==
    IF n = 0 THEN {<<>>}
    ELSE LET shorter == Texts(n - 1)
         IN shorter \cup { t \o seg : t \in shorter, seg \in Segments }

\* the client after Start, the response to initialize, CallTool, CallTool,
\* with one of texts about to come from the worker
FrameState(texts) ==
    /\ variant \in Variants
    /\ process = "child"
    /\ requestId = 3
    /\ pendingRequests = [k \in {2, 3} |-> k]
    /\ buffer = <<>>
    /\ timers = << [id |-> 1, method |-> MethodInitialize],
                   [id |-> 2, method |-> MethodToolsCall],
                   [id |-> 3, method |-> MethodToolsCall] >>
    /\ requests = [k \in 1..3 |->
            IF k = 1
            THEN [method |-> MethodInitialize, state |-> "resolved",
                  value |-> Str("a"), reason |-> "", ready |-> FALSE,
                  by |-> "response", frame |-> InitializeResponse, first |-> TRUE,
                  calls |-> 1, late |-> FALSE]
            ELSE [method |-> MethodToolsCall, state |-> "pending",
                  value |-> Undef, reason |-> "", ready |-> TRUE,
                  by |-> "", frame |-> <<>>, first |-> FALSE,
                  calls |-> 0, late |-> FALSE]]
    /\ stdin = << RequestFrame(1, MethodInitialize),
                  NotificationFrame(MethodInitialized),
                  RequestFrame(2, MethodToolsCall),
                  RequestFrame(3, MethodToolsCall) >>
    /\ listening = TRUE
    /\ startState = "ready"
    /\ initId = 1
    /\ stopState = "idle"
    /\ graceTimer = FALSE
    /\ killed = FALSE
    /\ worker = "running"
    /\ signals = <<>>
    /\ wire \in texts
    /\ emitted = 0
    /\ received = InitializeResponse \o <<NL>>
    /\ decoded = InitializeResponse \o <<NL>>
    /\ handed = <<InitializeResponse>>
    /\ atStop = {}
    /\ atExit = {}
    /\ raw = Undef
    /\ normData = Undef
    /\ norm1 = Undef
    /\ norm2 = Undef
    /\ npc = "off"
    /\ installed = FALSE
    /\ threw = FALSE

InitFrame == FrameState(Texts(MaxSeg) \ {<<>>})

\* one 'data' event carrying the next n bytes of the worker's output
Deliver ==
    \E n \in 1..Len(wire) :
        /\ StdoutData(SubSeq(wire, 1, n), TRUE)
        /\ wire' = SubSeq(wire, n + 1, Len(wire))
        /\ emitted' = emitted

NextFrame == Deliver

SpecFrame == InitFrame /\ [][NextFrame]_vars

\* the complete (newline-terminated) segments of a text that are not blank
NonBlankLines(text) ==
    LET segments == SplitLines(text)
    IN SelectSeq(SubSeq(segments, 1, Len(segments) - 1), LAMBDA l : ~IsBlank(l))

\* C7: however the worker's output is cut into chunks, the lines handed
\* to the parser are the non-blank newline-terminated lines of the whole
\* output.
C7_FramesOfWholeText == handed = NonBlankLines(BufferToString(received))

\* the lines of the text as the client decoded it, and among them the
\* places of the well-formed responses that carry id p
TextLines == NonBlankLines(decoded)
ResponsesFor(p) ==
    { i \in 1..Len(TextLines) :
        JSONParseLine(TextLines[i]).ok /\ JSONParseLine(TextLines[i]).id = p }
First(S) == CHOOSE i \in S : \A j \in S : i <= j

\* C8: lines that are not JSON settle nothing and remove nothing from the
\* table: a request is out of the table exactly when a well-formed
\* response with its id has come, whatever other lines came before it,
\* and it is then settled by the first such response.
C8_MalformedLinesSkipped ==
    \A p \in {2, 3} :
        IF ResponsesFor(p) = {}
        THEN /\ p \in DOMAIN pendingRequests
             /\ requests[p].state = "pending"
             /\ requests[p].calls = 0
        ELSE /\ p \notin DOMAIN pendingRequests
             /\ requests[p].by = "response"
             /\ requests[p].frame = TextLines[First(ResponsesFor(p))]

\* a response came, then a line that is not JSON, then the response of
\* the other request, and both requests were settled
C8_BetweenResponsesWitness ==
    /\ Len(TextLines) = 4
    /\ JSONParseLine(TextLines[2]).ok
    /\ ~JSONParseLine(TextLines[3]).ok
    /\ JSONParseLine(TextLines[4]).ok
    /\ JSONParseLine(TextLines[2]).id # JSONParseLine(TextLines[4]).id
    /\ requests[2].by = "response"
    /\ requests[3].by = "response"
    /\ pendingRequests = <<>>

\* C16: a request settled by a response frame that carries an error is
\* rejected with the error's message, or with the JSON text of the error
\* object when it has no message; one settled by a frame without an error
\* is resolved with the frame's result.
C16_ErrorMessageOrStringified ==
    \A p \in DOMAIN requests :
        requests[p].by = "response" =>
            LET response == JSONParseLine(requests[p].frame)
            IN CASE response.error = "e" ->
                        /\ requests[p].state = "rejected"
                        /\ requests[p].reason = ErrorMessageText
                 [] response.error = "f" ->
                        /\ requests[p].state = "rejected"
                        /\ requests[p].reason = ErrorStringified
                 [] OTHER ->
                        /\ requests[p].state = "resolved"
                        /\ requests[p].value = response.result

\* what a caller can see of a request: its promise
Settlement(r) == [state |-> r.state, value |-> r.value, reason |-> r.reason,
                  calls |-> r.calls]

\* C20: a 'data' event in which every well-formed response handed to the
\* parser carries an id that has no entry in the table (an id never
\* issued, or one whose request was settled before) settles nothing and
\* changes neither the table nor the id counter nor any request.
C20_UnmatchedResponseIgnored ==
    [][ LET lines == SubSeq(handed', Len(handed) + 1, Len(handed'))
        IN (\A i \in 1..Len(lines) :
                JSONParseLine(lines[i]).ok =>
                    JSONParseLine(lines[i]).id \notin DOMAIN pendingRequests)
           => /\ pendingRequests' = pendingRequests
              /\ requestId' = requestId
              /\ DOMAIN requests' = DOMAIN requests
              /\ \A p \in DOMAIN requests :
                    Settlement(requests'[p]) = Settlement(requests[p])
              /\ timers' = timers
              /\ stdin' = stdin
              /\ startState' = startState
      ]_vars

\* a response with an id never issued, the response of request 2, and a
\* second response for request 2 have been handed to the parser: request
\* 2 keeps its first outcome and request 3 is still pending
C20_UnknownAndDuplicateWitness ==
    /\ handed = <<InitializeResponse, Line(UnknownId, <<"a">>),
                  Line(2, <<"a">>), Line(2, <<"f">>)>>
    /\ requests[2].state = "resolved"
    /\ requests[2].calls = 1
    /\ requests[2].late
    /\ requests[3].state = "pending"
    /\ DOMAIN pendingRequests = {3}

(***************************************************************************)
(* Settlement.  SpecSettle starts from the same client as SpecFrame and    *)
(* delivers responses to the two pending requests in every combination    *)
(* of a result member (absent or present) and an error member (absent,     *)
(* with a message, without a message).                                     *)
(***************************************************************************)
\* responses in the text the worker writes
MaxFrames == 2

ResponseShapes ==
    { Line(p, chars \o err) \o <<NL>> :
        p \in {2, 3}, chars \in {<<>>, <<"a">>}, err \in {<<>>, <<"e">>, <<"f">>} }

RECURSIVE ResponseTexts(_)
ResponseTexts(n) ==
    IF n = 0 THEN {<<>>}
    ELSE LET shorter == ResponseTexts(n - 1)
         IN shorter \cup { t \o shape : t \in shorter, shape \in ResponseShapes }

InitSettle == FrameState(ResponseTexts(MaxFrames) \ {<<>>})

SpecSettle == InitSettle /\ [][NextFrame]_vars

\* C27: the first frame that carries the id of a pending request settles
\* it, and only the truthiness of its error member decides how: with an
\* error the request is rejected, also when the frame has a result as
\* well; without one it is resolved with the frame's result, which is
\* undefined when the frame has neither member.
C27_SettledOnErrorAlone ==
    \A p \in {2, 3} :
        ResponsesFor(p) # {} =>
            LET frame == TextLines[First(ResponsesFor(p))]
                response == JSONParseLine(frame)
            IN /\ requests[p].by = "response"
               /\ requests[p].frame = frame
               /\ requests[p].calls = 1
               /\ IF response.error # ""
                  THEN requests[p].state = "rejected"
                  ELSE /\ requests[p].state = "resolved"
                       /\ requests[p].value = response.result

\* request 2 was rejected by a frame that has a result and an error, and
\* request 3 was resolved with undefined by a frame that has neither
C27_BothAndNeitherWitness ==
    /\ requests[2].frame = Line(2, <<"a", "e">>)
    /\ requests[2].state = "rejected"
    /\ requests[2].reason = ErrorMessageText
    /\ requests[3].frame = Line(3, <<>>)
    /\ requests[3].state = "resolved"
    /\ requests[3].value = Undef
    /\ pendingRequests = <<>>

(***************************************************************************)
(* Normalization.  SpecNorm applies normalizeData and normalizeResponse    *)
(* to every raw value, and normalizeResponse again to its own result.      *)
(***************************************************************************)
InitNorm ==
    /\ variant = "runtime"
    /\ process = "undefined"
    /\ requestId = 0
    /\ pendingRequests = <<>>
    /\ buffer = <<>>
    /\ timers = <<>>
    /\ requests = <<>>
    /\ stdin = <<>>
    /\ listening = FALSE
    /\ startState = "idle"
    /\ initId = 0
    /\ stopState = "idle"
    /\ graceTimer = FALSE
    /\ killed = FALSE
    /\ worker = "none"
    /\ signals = <<>>
    /\ wire = <<>>
    /\ emitted = 0
    /\ received = <<>>
    /\ decoded = <<>>
    /\ handed = <<>>
    /\ atStop = {}
    /\ atExit = {}
    /\ raw \in RawValues(MaxDepth)
    /\ normData = Undef
    /\ norm1 = Undef
    /\ norm2 = Undef
    /\ npc = "input"
    /\ installed = FALSE
    /\ threw = FALSE

NormalizeOnce ==
    /\ npc = "input"
    /\ normData' = NormalizeData(raw)
    /\ norm1' = NormalizeResponse(raw)
    /\ npc' = "once"
    /\ UNCHANGED <<raw, norm2, clientVars, workerVars, historyVars>>
    /\ UNCHANGED execVars

NormalizeAgain ==
    /\ npc = "once"
    /\ norm2' = NormalizeResponse(norm1)
    /\ npc' = "twice"
    /\ UNCHANGED <<raw, normData, norm1, clientVars, workerVars, historyVars>>
    /\ UNCHANGED execVars

NextNorm == NormalizeOnce \/ NormalizeAgain

SpecNorm == InitNorm /\ [][NextNorm]_vars

\* C9: normalizeResponse applied to its own result changes nothing.
C9_NormalizeIdempotent == npc = "twice" => norm2 = norm1

\* C10: normalizeData leaves no object whose only key is "" at any depth,
\* and gives for { "": v } what it gives for v; { "": { "": 5 } } becomes 5
\* and { "": [1, 2] } becomes [1, 2], under normalizeResponse too.
C10_EmptyKeyUnwrapped ==
    npc # "input" =>
        /\ ~HasEmptyKeyWrapper(normData)
        /\ IsEmptyKeyWrapper(raw) => normData = NormalizeData(raw.props[""])
        /\ raw = Wrap(Wrap(Five)) => normData = Five /\ norm1 = Five
        /\ raw = Wrap(Arr(<<One, Two>>)) =>
                normData = Arr(<<One, Two>>) /\ norm1 = Arr(<<One, Two>>)

\* three stacked wrappers
C10_StackedWitness ==
    /\ npc = "once"
    /\ raw = Wrap(Wrap(Wrap(Five)))
    /\ normData = Five

\* some string at any depth of v, among the values that normalizeData
\* keeps as own properties, is one of the JSON documents
RECURSIVE HasJSONText(_)
HasJSONText(v) ==
    CASE v.t = "str" -> v.s \in JSONDocuments
      [] v.t = "arr" -> \E i \in 1..Len(v.items) : HasJSONText(v.items[i])
      [] v.t = "obj" ->
            \E k \in DOMAIN v.props \ {ProtoKey} : HasJSONText(v.props[k])
      [] OTHER -> FALSE

C24_KeysAndShapePreserved ==
    npc # "input" =>
        CASE raw.t = "arr" ->
                /\ normData.t = "arr"
                /\ Len(normData.items) = Len(raw.items)
                /\ \A i \in 1..Len(raw.items) :
                      normData.items[i] = NormalizeData(raw.items[i])
          [] raw.t = "obj" /\ ~IsEmptyKeyWrapper(raw) ->
                /\ normData.t = "obj"
                /\ DOMAIN normData.props = DOMAIN raw.props
                /\ \A k \in DOMAIN raw.props :
                      normData.props[k] = NormalizeData(raw.props[k])
          [] raw.t = "obj" /\ IsEmptyKeyWrapper(raw) -> TRUE
          [] OTHER -> normData = raw

(***************************************************************************)
(* The runtime executor.  SpecExec is executeCode() for a protocol server: *)
(* it starts the client, installs it as the global handle when start()     *)
(* has returned, and never stops it; tool calls are made through the       *)
(* generated wrapper functions, at any time.                               *)
(***************************************************************************)
\* a global handle installed as soon as start() was called
CanInstallEarly(state) == state # "idle"

\* `await client.start(...)` has returned: start() is resolved
CanInstall(state) == state = "ready"

\* (global as any).__mcpClient = client
Install ==
    /\ CanInstall(startState)
    /\ ~installed
    /\ installed' = TRUE
    /\ UNCHANGED <<clientVars, workerVars, historyVars, normVars, threw>>

\* a generated wrapper function: without the global client it throws
\* 'This function must be called through the MCP executor', with it it
\* calls client.callTool
WrapperCall ==
    IF installed
    THEN CallTool
    ELSE /\ threw' = TRUE
         /\ UNCHANGED <<clientVars, workerVars, historyVars, normVars, installed>>

InitExec == Init /\ variant = "runtime"

NextExec ==
    \/ Start
    \/ Install
    \/ WrapperCall
    \/ WorkerSends
    \/ TimerFires
    \/ WorkerExits

SpecExec == InitExec /\ [][NextExec]_vars

\* C30: a wrapper called while no global client is installed throws and
\* leaves the client and its stdin as they are; the global client is
\* installed only when start() has resolved; so every tools/call request
\* is made on a ready client and its frame follows the
\* notifications/initialized frame on stdin.
C30_WrapperNeedsInstalledClient ==
    /\ [](installed => startState = "ready")
    /\ [](~installed =>
            \A i \in 1..Len(stdin) : stdin[i].method # MethodToolsCall)
    /\ [](\A p \in DOMAIN requests :
            requests[p].method = MethodToolsCall => requests[p].ready)
    /\ [](\A i \in 1..Len(stdin) :
            stdin[i].method = MethodToolsCall =>
                \E j \in 1..(i - 1) : stdin[j].method = MethodInitialized)
    /\ [][ (~threw /\ threw') =>
              /\ ~installed
              /\ UNCHANGED <<clientVars, workerVars>> ]_vars

\* a wrapper call made before the handshake threw, and one made after the
\* client was installed wrote its tools/call frame
C30_ThrewThenCalledWitness ==
    /\ threw
    /\ installed
    /\ stdin = <<RequestFrame(1, MethodInitialize),
                 NotificationFrame(MethodInitialized),
                 RequestFrame(2, MethodToolsCall)>>

====
